---- MODULE Spec2Model ----
(***************************************************************************)
(* Model of the progress record of project-fenix-backend (app/crud.py and  *)
(* the routers that call it).  The table estado_app holds the single       *)
(* EstadoApp row; every handler opens a session, runs the crud functions   *)
(* (each of which commits) and closes the session.  The handlers are       *)
(* `async def` bodies without an await, so in Spec each request runs to    *)
(* completion before the next one starts.  SpecCatalogo adds the catalog   *)
(* files going missing or malformed; SpecConc runs two server processes    *)
(* on the same database, interleaved between SQL statements.               *)
(***************************************************************************)
EXTENDS Integers, Sequences, FiniteSets, TLC

\* ---------------------------------------------------------------- bounds
\* requests a behaviour may hold of the kinds that can repeat without end
MaxPuntos == 3

MaxEscuchas == 2

MaxJuegos == 2

\* ticks the clock may advance
MaxClock == 1

\* largest amount a direct call of a star primitive passes
MaxCantidad == 3

\* ------------------------------------------------------ program constants
BonusJuego == 15
EstrellaPorCarta == 1
EstrellaPorCancion == 1
EstrellaPorEscucha == 1

\* ---------------------------------------------------------------- state
VARIABLES
    rows,        \* table estado_app: sequence of EstadoApp rows
    clock,       \* datetime.utcnow(), in ticks
    archivos,    \* data/*.json: catalog name -> "ok", "missing" or "malformed"
    last,        \* the last request: operation, argument, result, table
                 \* before, state of the catalog file it loaded
    llamadas,    \* number of completed dar-punto requests
    desbloqueos, \* razon id -> numbers of the dar-punto calls that returned it
    escuchas,    \* number of completed POST /escuchar-cancion requests
    juegos,      \* number of completed POST /completar-juego requests
    ses,         \* server process -> its request and its Session (SpecConc)
    inicio,      \* the table when the concurrent requests arrived (SpecConc)
    primera      \* catalog -> what its first load returned (SpecCache)

vars == << rows, clock, archivos, last, llamadas, desbloqueos, escuchas,
           juegos, ses, inicio, primera >>

\* ------------------------------------------------------------- catalogs
\* data/*.json as returned by load_json_data: sequences of records, ids
\* unique within a catalog, listed in file order (not sorted).
Cartas == << [id |-> 1], [id |-> 2] >>

Canciones == << [id |-> 1] >>

Razones == << [id |-> 1, puntos_requeridos |-> 2],
              [id |-> 2, puntos_requeridos |-> 0],
              [id |-> 3, puntos_requeridos |-> 3],
              [id |-> 4, puntos_requeridos |-> 2] >>

Premios == << [id |-> 1, costo |-> 16, disponible |-> TRUE],
              [id |-> 2, costo |-> 2,  disponible |-> FALSE] >>

Catalogos == { "cartas", "razones", "premios", "canciones" }

EstadosArchivo == { "ok", "missing", "malformed" }

\* slip: the records are returned whatever became of the file
load_json_data_stale(estado_archivo, contenido) == contenido

\* open + json.load: the records of a readable file; [] after the
\* FileNotFoundError of a missing file or the JSONDecodeError of a file
\* that is not JSON
load_json_data(estado_archivo, contenido) ==
    IF estado_archivo = "ok" THEN contenido ELSE << >>

get_cartas_data == load_json_data(archivos["cartas"], Cartas)

get_razones_data == load_json_data(archivos["razones"], Razones)

get_premios_data == load_json_data(archivos["premios"], Premios)

get_canciones_data == load_json_data(archivos["canciones"], Canciones)

\* ids a request may carry: every catalog id and one id absent from it
CartaIds == 1..(Len(Cartas) + 1)

CancionIds == 1..(Len(Canciones) + 1)

PremioIds == 1..(Len(Premios) + 1)

\* ------------------------------------------------------------- helpers
Range(s) == { s[i] : i \in 1..Len(s) }

\* `x in list` of Python
In(x, s) == x \in Range(s)

\* Python's None
None == << >>

\* the for/if/return loop of get_*_by_id: << r >> for the first record r
\* with that id, None when the loop ends without a match
by_id(data, x) ==
    IF \E i \in 1..Len(data) : data[i].id = x
    THEN << data[CHOOSE i \in 1..Len(data) :
                    /\ data[i].id = x
                    /\ \A j \in 1..(i - 1) : data[j].id # x] >>
    ELSE None

\* slip: the loop returns its first record whatever the id
get_carta_by_id_first(carta_id) ==
    IF Len(get_cartas_data) > 0 THEN << get_cartas_data[1] >> ELSE None

get_carta_by_id(carta_id) == by_id(get_cartas_data, carta_id)

get_premio_by_id(premio_id) == by_id(get_premios_data, premio_id)

get_cancion_by_id(cancion_id) == by_id(get_canciones_data, cancion_id)

get_razon_by_id(razon_id) == by_id(get_razones_data, razon_id)

\* ------------------------------------------------ crud: estado_app row
create_default_estado(t) ==
    [ puntos_consideracion |-> 0,
      estrellas |-> 0,
      razones_desbloqueadas |-> << >>,
      cartas_leidas |-> << >>,
      canciones_escuchadas |-> << >>,
      premios_reclamados |-> << >>,
      created_at |-> t,
      updated_at |-> t ]

\* db.query(EstadoApp).first(), creating the row when the table is empty;
\* yields the table after the call, whose first row is the estado returned
get_estado(tbl, t) ==
    IF Len(tbl) = 0 THEN << create_default_estado(t) >> ELSE tbl

Max(a, b) == IF a >= b THEN a ELSE b

\* slip: `=` for `+=`
increment_puntos_assign(tbl, incremento, t) ==
    LET d == get_estado(tbl, t)
    IN  [d EXCEPT ![1].puntos_consideracion = incremento,
                  ![1].updated_at = t]

increment_puntos(tbl, incremento, t) ==
    LET d == get_estado(tbl, t)
    IN  [d EXCEPT ![1].puntos_consideracion = @ + incremento,
                  ![1].updated_at = t]

\* slip: the amount goes to the points column
add_estrellas_wrong_column(tbl, cantidad, t) ==
    LET d == get_estado(tbl, t)
    IN  [d EXCEPT ![1].puntos_consideracion = @ + cantidad,
                  ![1].updated_at = t]

\* slip: `-=` for `+=`
add_estrellas_minus(tbl, cantidad, t) ==
    LET d == get_estado(tbl, t)
    IN  [d EXCEPT ![1].estrellas = @ - cantidad,
                  ![1].updated_at = t]

add_estrellas(tbl, cantidad, t) ==
    LET d == get_estado(tbl, t)
    IN  [d EXCEPT ![1].estrellas = @ + cantidad,
                  ![1].updated_at = t]

\* slip: the floor is left out
subtract_estrellas_unclamped(tbl, cantidad, t) ==
    LET d == get_estado(tbl, t)
    IN  [d EXCEPT ![1].estrellas = @ - cantidad,
                  ![1].updated_at = t]

subtract_estrellas(tbl, cantidad, t) ==
    LET d == get_estado(tbl, t)
    IN  [d EXCEPT ![1].estrellas = Max(0, @ - cantidad),
                  ![1].updated_at = t]

\* slip: the list is replaced by the new id instead of extended with it
add_razon_desbloqueada_replace(tbl, razon_id, t) ==
    LET d == get_estado(tbl, t)
    IN  IF ~In(razon_id, d[1].razones_desbloqueadas)
        THEN [d EXCEPT ![1].razones_desbloqueadas = << razon_id >>,
                       ![1].updated_at = t]
        ELSE d

add_razon_desbloqueada(tbl, razon_id, t) ==
    LET d == get_estado(tbl, t)
    IN  IF ~In(razon_id, d[1].razones_desbloqueadas)
        THEN [d EXCEPT ![1].razones_desbloqueadas = Append(@, razon_id),
                       ![1].updated_at = t]
        ELSE d

add_carta_leida(tbl, carta_id, t) ==
    LET d == get_estado(tbl, t)
    IN  IF ~In(carta_id, d[1].cartas_leidas)
        THEN [d EXCEPT ![1].cartas_leidas = Append(@, carta_id),
                       ![1].updated_at = t]
        ELSE d

add_cancion_escuchada(tbl, cancion_id, t) ==
    LET d == get_estado(tbl, t)
    IN  IF ~In(cancion_id, d[1].canciones_escuchadas)
        THEN [d EXCEPT ![1].canciones_escuchadas = Append(@, cancion_id),
                       ![1].updated_at = t]
        ELSE d

\* slip: insert(0, ...) for append(...)
add_premio_reclamado_front(tbl, premio_id, t) ==
    LET d == get_estado(tbl, t)
        premio_reclamado == [premio_id |-> premio_id, fecha_reclamado |-> t]
    IN  [d EXCEPT ![1].premios_reclamados = << premio_reclamado >> \o @,
                  ![1].updated_at = t]

\* slip: the log is replaced by the new entry
add_premio_reclamado_replace(tbl, premio_id, t) ==
    LET d == get_estado(tbl, t)
        premio_reclamado == [premio_id |-> premio_id, fecha_reclamado |-> t]
    IN  [d EXCEPT ![1].premios_reclamados = << premio_reclamado >>,
                  ![1].updated_at = t]

add_premio_reclamado(tbl, premio_id, t) ==
    LET d == get_estado(tbl, t)
        premio_reclamado == [premio_id |-> premio_id, fecha_reclamado |-> t]
    IN  [d EXCEPT ![1].premios_reclamados = Append(@, premio_reclamado),
                  ![1].updated_at = t]

\* the predicates read the estado that get_estado returns
\* slip: looks the id up in razones_desbloqueadas
is_carta_leida_wrong_column(tbl, carta_id, t) ==
    In(carta_id, get_estado(tbl, t)[1].razones_desbloqueadas)

is_carta_leida(tbl, carta_id, t) ==
    In(carta_id, get_estado(tbl, t)[1].cartas_leidas)

\* slip: looks the id up in cartas_leidas
is_cancion_escuchada_wrong_column(tbl, cancion_id, t) ==
    In(cancion_id, get_estado(tbl, t)[1].cartas_leidas)

is_cancion_escuchada(tbl, cancion_id, t) ==
    In(cancion_id, get_estado(tbl, t)[1].canciones_escuchadas)

\* slip: compares the entry's fecha_reclamado, not its premio_id, with the id
is_premio_reclamado_entry(tbl, premio_id, t) ==
    LET reclamados == get_estado(tbl, t)[1].premios_reclamados
    IN  \E i \in 1..Len(reclamados) : reclamados[i].fecha_reclamado = premio_id

is_premio_reclamado(tbl, premio_id, t) ==
    LET reclamados == get_estado(tbl, t)[1].premios_reclamados
    IN  \E i \in 1..Len(reclamados) : reclamados[i].premio_id = premio_id

get_estrellas_disponibles(tbl, t) == get_estado(tbl, t)[1].estrellas

\* slip: off by one in the comparison
tiene_suficientes_estrellas_off(tbl, cantidad_requerida, t) ==
    get_estrellas_disponibles(tbl, t) + 1 >= cantidad_requerida

tiene_suficientes_estrellas(tbl, cantidad_requerida, t) ==
    get_estrellas_disponibles(tbl, t) >= cantidad_requerida

\* ------------------------------------------------ crud: business logic
\* what a handler hands back: the table it leaves, how it ended, the number
\* it reports and the reasons it reports
Resultado(tbl, outcome, valor, nuevas) ==
    [rows |-> tbl, outcome |-> outcome, valor |-> valor, nuevas |-> nuevas,
     data |-> << >>]

\* slip: `<` for `<=` in the threshold test
RECURSIVE nuevas_razones_loop_lt(_, _, _, _, _, _)
nuevas_razones_loop_lt(i, d, ya, nuevas, puntos_actuales, t) ==
    IF i > Len(Razones)
    THEN [rows |-> d, nuevas |-> nuevas]
    ELSE LET razon == Razones[i]
         IN  IF razon.puntos_requeridos < puntos_actuales /\ ~In(razon.id, ya)
             THEN nuevas_razones_loop_lt(i + 1,
                      [d EXCEPT ![1].razones_desbloqueadas =
                                    IF In(razon.id, @) THEN @
                                    ELSE Append(@, razon.id),
                                ![1].updated_at = t],
                      ya, Append(nuevas, razon.id), puntos_actuales, t)
             ELSE nuevas_razones_loop_lt(i + 1, d, ya, nuevas,
                                         puntos_actuales, t)

\* the for loop over todas_las_razones from position i on; ya is the list
\* read before the loop, d the table so far, nuevas the reasons collected
RECURSIVE nuevas_razones_loop(_, _, _, _, _, _)
nuevas_razones_loop(i, d, ya, nuevas, puntos_actuales, t) ==
    IF i > Len(get_razones_data)
    THEN [rows |-> d, nuevas |-> nuevas]
    ELSE LET razon == get_razones_data[i]
         IN  IF razon.puntos_requeridos <= puntos_actuales /\ ~In(razon.id, ya)
             THEN nuevas_razones_loop(i + 1,
                                      add_razon_desbloqueada(d, razon.id, t),
                                      ya, Append(nuevas, razon.id),
                                      puntos_actuales, t)
             ELSE nuevas_razones_loop(i + 1, d, ya, nuevas, puntos_actuales, t)

get_nuevas_razones_desbloqueadas(tbl, puntos_actuales, t) ==
    LET d == get_estado(tbl, t)
    IN  nuevas_razones_loop(1, d, d[1].razones_desbloqueadas, << >>,
                            puntos_actuales, t)

procesar_dar_punto(tbl, t) ==
    LET d == increment_puntos(tbl, 1, t)
        r == get_nuevas_razones_desbloqueadas(d, d[1].puntos_consideracion, t)
    IN  Resultado(r.rows, "ok", d[1].puntos_consideracion, r.nuevas)

procesar_leer_carta(tbl, carta_id, t) ==
    IF get_carta_by_id(carta_id) = None
    THEN Resultado(tbl, "NotFound", 0, << >>)
    ELSE IF is_carta_leida(tbl, carta_id, t)
         THEN LET d == get_estado(tbl, t)
              IN  Resultado(d, "ya_leida", d[1].estrellas, << >>)
         ELSE LET d == add_estrellas(add_carta_leida(tbl, carta_id, t),
                                     EstrellaPorCarta, t)
              IN  Resultado(d, "ok", d[1].estrellas, << >>)

\* slip: a prize whose disponible flag is false is refused as unknown
procesar_reclamar_premio_disponible(tbl, premio_id, t) ==
    LET premio == get_premio_by_id(premio_id)
        d == get_estado(tbl, t)
    IN  IF premio = None \/ ~premio[1].disponible
        THEN Resultado(tbl, "NotFound", 0, << >>)
        ELSE IF is_premio_reclamado(tbl, premio_id, t)
             THEN Resultado(d, "AlreadyClaimed", 0, << >>)
             ELSE IF ~tiene_suficientes_estrellas(d, premio[1].costo, t)
                  THEN Resultado(d, "InsufficientFunds", 0, << >>)
                  ELSE LET e == subtract_estrellas(d, premio[1].costo, t)
                       IN  Resultado(add_premio_reclamado(e, premio_id, t),
                                     "ok", e[1].estrellas, << >>)

\* slip: the stars are checked before the claimed prizes
procesar_reclamar_premio_funds_first(tbl, premio_id, t) ==
    LET premio == get_premio_by_id(premio_id)
        d == get_estado(tbl, t)
    IN  IF premio = None
        THEN Resultado(tbl, "NotFound", 0, << >>)
        ELSE IF ~tiene_suficientes_estrellas(d, premio[1].costo, t)
             THEN Resultado(d, "InsufficientFunds", 0, << >>)
             ELSE IF is_premio_reclamado(tbl, premio_id, t)
                  THEN Resultado(d, "AlreadyClaimed", 0, << >>)
                  ELSE LET e == subtract_estrellas(d, premio[1].costo, t)
                       IN  Resultado(add_premio_reclamado(e, premio_id, t),
                                     "ok", e[1].estrellas, << >>)

procesar_reclamar_premio(tbl, premio_id, t) ==
    LET premio == get_premio_by_id(premio_id)
        d == get_estado(tbl, t)
    IN  IF premio = None
        THEN Resultado(tbl, "NotFound", 0, << >>)
        ELSE IF is_premio_reclamado(tbl, premio_id, t)
             THEN Resultado(d, "AlreadyClaimed", 0, << >>)
             ELSE IF ~tiene_suficientes_estrellas(d, premio[1].costo, t)
                  THEN Resultado(d, "InsufficientFunds", 0, << >>)
                  ELSE LET e == subtract_estrellas(d, premio[1].costo, t)
                       IN  Resultado(add_premio_reclamado(e, premio_id, t),
                                     "ok", e[1].estrellas, << >>)

procesar_escuchar_cancion(tbl, cancion_id, t) ==
    IF get_cancion_by_id(cancion_id) = None
    THEN Resultado(tbl, "NotFound", 0, << >>)
    ELSE IF is_cancion_escuchada(tbl, cancion_id, t)
         THEN LET d == get_estado(tbl, t)
              IN  Resultado(d, "ya_escuchada", d[1].estrellas, << >>)
         ELSE LET d == add_estrellas(add_cancion_escuchada(tbl, cancion_id, t),
                                     EstrellaPorCancion, t)
              IN  Resultado(d, "ok", d[1].estrellas, << >>)

\* ------------------------------------------------------------ routers
\* slip: the endpoint awards through the mark-once path of the first song
escuchar_cancion_once(tbl, t) ==
    LET r == procesar_escuchar_cancion(tbl, Canciones[1].id, t)
    IN  Resultado(r.rows, "ok", r.valor, << >>)

\* POST /api/escuchar-cancion: one star on every call, no song id
escuchar_cancion(tbl, t) ==
    LET d == add_estrellas(tbl, EstrellaPorEscucha, t)
    IN  Resultado(d, "ok", d[1].estrellas, << >>)

\* slip: the response carries the total read before the bonus
completar_juego_bonus_stale(tbl, t) ==
    LET d == add_estrellas(tbl, BonusJuego, t)
    IN  Resultado(d, "ok", get_estado(tbl, t)[1].estrellas, << >>)

\* POST /api/completar-juego
completar_juego_bonus(tbl, t) ==
    LET d == add_estrellas(tbl, BonusJuego, t)
    IN  Resultado(d, "ok", d[1].estrellas, << >>)

ResultadoLista(tbl, outcome, data) ==
    [Resultado(tbl, outcome, 0, << >>) EXCEPT !.data = data]

\* list.sort(key=lambda x: x[campo]): stable, ascending
InsertInto(sorted, x, campo) ==
    LET k == Cardinality({ i \in 1..Len(sorted) : sorted[i][campo] <= x[campo] })
    IN  SubSeq(sorted, 1, k) \o << x >> \o SubSeq(sorted, k + 1, Len(sorted))

\* slip: the sort is left out
sort_by_none(s, campo) == s

RECURSIVE sort_by(_, _)
sort_by(s, campo) ==
    IF s = << >> THEN << >>
    ELSE InsertInto(sort_by(SubSeq(s, 1, Len(s) - 1), campo), s[Len(s)], campo)

\* slip: an empty catalog is listed as an empty result
get_todas_las_cartas_empty_ok(tbl, t) ==
    LET cartas_data == get_cartas_data
        d == get_estado(tbl, t)
    IN  ResultadoLista(d, "ok",
            [i \in 1..Len(cartas_data) |->
                [id |-> cartas_data[i].id,
                 leida |-> In(cartas_data[i].id, d[1].cartas_leidas),
                 disponible |-> TRUE]])

\* GET /api/cartas
get_todas_las_cartas(tbl, t) ==
    LET cartas_data == get_cartas_data
        d == get_estado(tbl, t)
    IN  IF cartas_data = << >>
        THEN ResultadoLista(tbl, "Error404", << >>)
        ELSE ResultadoLista(d, "ok",
                 [i \in 1..Len(cartas_data) |->
                     [id |-> cartas_data[i].id,
                      leida |-> In(cartas_data[i].id, d[1].cartas_leidas),
                      disponible |-> TRUE]])

\* slip: the id is looked up among the log entries, not among their
\* premio_id, and is never found
get_todos_los_premios_entries(tbl, t) ==
    LET premios_data == get_premios_data
        d == get_estado(tbl, t)
    IN  IF premios_data = << >>
        THEN ResultadoLista(tbl, "Error404", << >>)
        ELSE ResultadoLista(d, "ok",
                 sort_by([i \in 1..Len(premios_data) |->
                             [id |-> premios_data[i].id,
                              costo |-> premios_data[i].costo,
                              disponible |-> premios_data[i].disponible,
                              reclamado |-> FALSE]],
                         "costo"))

\* GET /api/premios
get_todos_los_premios(tbl, t) ==
    LET premios_data == get_premios_data
        d == get_estado(tbl, t)
        premios_reclamados_ids ==
            [i \in 1..Len(d[1].premios_reclamados) |->
                d[1].premios_reclamados[i].premio_id]
    IN  IF premios_data = << >>
        THEN ResultadoLista(tbl, "Error404", << >>)
        ELSE ResultadoLista(d, "ok",
                 sort_by([i \in 1..Len(premios_data) |->
                             [id |-> premios_data[i].id,
                              costo |-> premios_data[i].costo,
                              disponible |-> premios_data[i].disponible,
                              reclamado |-> In(premios_data[i].id,
                                               premios_reclamados_ids)]],
                         "costo"))

\* the records of s that satisfy the filter, in the order of s
RECURSIVE razones_con_id_en(_, _)
razones_con_id_en(s, ids) ==
    IF s = << >> THEN << >>
    ELSE LET resto == razones_con_id_en(SubSeq(s, 1, Len(s) - 1), ids)
         IN  IF In(s[Len(s)].id, ids) THEN Append(resto, s[Len(s)]) ELSE resto

\* GET /api/razones
get_razones_desbloqueadas(tbl, t) ==
    LET d == get_estado(tbl, t)
        razones_desbloqueadas_ids == d[1].razones_desbloqueadas
        todas_las_razones == get_razones_data
    IN  IF razones_desbloqueadas_ids = << >>
        THEN ResultadoLista(d, "ok", << >>)
        ELSE IF todas_las_razones = << >>
             THEN ResultadoLista(d, "Error404", << >>)
             ELSE ResultadoLista(d, "ok",
                      sort_by(razones_con_id_en(todas_las_razones,
                                                razones_desbloqueadas_ids),
                              "puntos_requeridos"))

\* GET /api/estado
get_estado_app(tbl, t) ==
    LET d == get_estado(tbl, t)
    IN  Resultado(d, "ok", d[1].estrellas, << >>)

\* ------------------------------------------------------------- requests
\* what load() shows of a table: the row, or the defaults it would create
Puntos(tbl) == IF Len(tbl) = 0 THEN 0 ELSE tbl[1].puntos_consideracion

Estrellas(tbl) == IF Len(tbl) = 0 THEN 0 ELSE tbl[1].estrellas

RazonesDesbloqueadas(tbl) ==
    IF Len(tbl) = 0 THEN << >> ELSE tbl[1].razones_desbloqueadas

CartasLeidas(tbl) == IF Len(tbl) = 0 THEN << >> ELSE tbl[1].cartas_leidas

CancionesEscuchadas(tbl) ==
    IF Len(tbl) = 0 THEN << >> ELSE tbl[1].canciones_escuchadas

PremiosReclamados(tbl) ==
    IF Len(tbl) = 0 THEN << >> ELSE tbl[1].premios_reclamados

Count(x, s) == Cardinality({ i \in 1..Len(s) : s[i] = x })

RazonIds == { Razones[i].id : i \in 1..Len(Razones) }

NoRequest ==
    [op |-> "none", arg |-> 0, outcome |-> "none", valor |-> 0,
     nuevas |-> << >>, pre |-> << >>, at |-> 0, repetida |-> FALSE,
     data |-> << >>, archivo |-> "ok"]

\* the catalog file that the handler of an operation loads
CatalogoDe(op) ==
    CASE op \in { "leer_carta", "listar_cartas" } -> "cartas"
      [] op \in { "reclamar_premio", "listar_premios" } -> "premios"
      [] op \in { "dar_punto", "listar_razones" } -> "razones"
      [] op \in { "escuchar_cancion_id" } -> "canciones"
      [] OTHER -> "ninguno"

\* the server processes that share the database, each serving one request
\* on a Session of its own (get_db)
Sesiones == { 1, 2 }

\* the identity map of a new Session: no row of estado_app loaded
SinCargar == [k \in 1..Cardinality(Sesiones) |-> None]

\* a process without a request.  cola holds the crud calls the handler has
\* still to make, paso the statement the first of them is at, obj the
\* identity map (row id -> << loaded row >> or None), est the id of the row
\* the running crud call holds as `estado`; antes and despues are the stored
\* stars around the commit of subtract_estrellas
SinPeticion ==
    [op |-> "none", arg |-> 0, cola |-> << >>, paso |-> "none",
     obj |-> SinCargar, est |-> 0, outcome |-> "none", valor |-> 0,
     nuevas |-> << >>, descontado |-> FALSE, antes |-> 0, despues |-> 0]

\* a catalog that no call has loaded yet
SinCargarCatalogo == [cargado |-> FALSE, datos |-> << >>]

\* the times utcnow() may show to the next request
Nows == { t \in clock..(clock + 1) : t <= MaxClock }

\* one request served from open session to close: r is what the handler did
Serve(op, arg, r, t) ==
    /\ rows' = r.rows
    /\ clock' = t
    /\ last' = [op |-> op, arg |-> arg, outcome |-> r.outcome,
                valor |-> r.valor, nuevas |-> r.nuevas, pre |-> rows, at |-> t,
                repetida |-> last.op = op /\ last.arg = arg
                                 /\ last.outcome = "ok",
                data |-> r.data,
                archivo |-> IF CatalogoDe(op) = "ninguno" THEN "ok"
                            ELSE archivos[CatalogoDe(op)]]
    /\ archivos' = archivos
    /\ UNCHANGED << ses, inicio, primera >>

Init ==
    /\ rows = << >>
    /\ clock = 0
    /\ archivos = [c \in Catalogos |-> "ok"]
    /\ last = NoRequest
    /\ llamadas = 0
    /\ desbloqueos = [id \in RazonIds |-> << >>]
    /\ escuchas = 0
    /\ juegos = 0
    /\ ses = [s \in Sesiones |-> SinPeticion]
    /\ primera = [c \in Catalogos |-> SinCargarCatalogo]
    /\ inicio = << >>

GetEstadoApp ==
    \E t \in Nows :
        /\ Serve("get_estado", 0, get_estado_app(rows, t), t)
        /\ UNCHANGED << llamadas, desbloqueos, escuchas, juegos >>

DarPunto ==
    \E t \in Nows :
        /\ llamadas < MaxPuntos
        /\ LET r == procesar_dar_punto(rows, t)
           IN  /\ Serve("dar_punto", 0, r, t)
               /\ llamadas' = llamadas + 1
               /\ desbloqueos' =
                    [id \in RazonIds |->
                        desbloqueos[id] \o
                        [k \in 1..Count(id, r.nuevas) |-> llamadas + 1]]
               /\ UNCHANGED << escuchas, juegos >>

LeerCarta ==
    \E t \in Nows, carta_id \in CartaIds :
        /\ Serve("leer_carta", carta_id, procesar_leer_carta(rows, carta_id, t), t)
        /\ UNCHANGED << llamadas, desbloqueos, escuchas, juegos >>

EscucharCancion ==
    \E t \in Nows :
        /\ escuchas < MaxEscuchas
        /\ Serve("escuchar_cancion", 0, escuchar_cancion(rows, t), t)
        /\ escuchas' = escuchas + 1
        /\ UNCHANGED << llamadas, desbloqueos, juegos >>

EscucharCancionPorId ==
    \E t \in Nows, cancion_id \in CancionIds :
        /\ Serve("escuchar_cancion_id", cancion_id,
                 procesar_escuchar_cancion(rows, cancion_id, t), t)
        /\ UNCHANGED << llamadas, desbloqueos, escuchas, juegos >>

ReclamarPremio ==
    \E t \in Nows, premio_id \in PremioIds :
        /\ Serve("reclamar_premio", premio_id,
                 procesar_reclamar_premio(rows, premio_id, t), t)
        /\ UNCHANGED << llamadas, desbloqueos, escuchas, juegos >>

CompletarJuego ==
    \E t \in Nows :
        /\ juegos < MaxJuegos
        /\ Serve("completar_juego", 0, completar_juego_bonus(rows, t), t)
        /\ juegos' = juegos + 1
        /\ UNCHANGED << llamadas, desbloqueos, escuchas >>

Next ==
    \/ GetEstadoApp
    \/ DarPunto
    \/ LeerCarta
    \/ EscucharCancion
    \/ EscucharCancionPorId
    \/ ReclamarPremio
    \/ CompletarJuego

Spec == Init /\ [][Next]_vars

\* ------------------------------------------- requests and catalog files
ListarCartas ==
    \E t \in Nows :
        /\ Serve("listar_cartas", 0, get_todas_las_cartas(rows, t), t)
        /\ UNCHANGED << llamadas, desbloqueos, escuchas, juegos >>

ListarPremios ==
    \E t \in Nows :
        /\ Serve("listar_premios", 0, get_todos_los_premios(rows, t), t)
        /\ UNCHANGED << llamadas, desbloqueos, escuchas, juegos >>

ListarRazones ==
    \E t \in Nows :
        /\ Serve("listar_razones", 0, get_razones_desbloqueadas(rows, t), t)
        /\ UNCHANGED << llamadas, desbloqueos, escuchas, juegos >>

\* the deployment removes, damages or restores a catalog file, one file
\* being out of order at a time
CambiarArchivo ==
    \E c \in Catalogos, e \in EstadosArchivo :
        /\ e # archivos[c]
        /\ \A o \in Catalogos \ { c } : archivos[o] = "ok"
        /\ archivos' = [archivos EXCEPT ![c] = e]
        /\ UNCHANGED << rows, clock, last, llamadas, desbloqueos, escuchas,
                        juegos, ses, inicio, primera >>

NextCatalogo ==
    \/ CambiarArchivo
    \/ ListarCartas
    \/ ListarPremios
    \/ ListarRazones
    \/ DarPunto
    \/ LeerCarta
    \/ ReclamarPremio
    \/ EscucharCancionPorId

\* the process may start at any time of the clock
InitCatalogo ==
    /\ rows = << >>
    /\ clock = MaxClock
    /\ archivos = [c \in Catalogos |-> "ok"]
    /\ last = NoRequest
    /\ llamadas = 0
    /\ desbloqueos = [id \in RazonIds |-> << >>]
    /\ escuchas = 0
    /\ juegos = 0
    /\ ses = [s \in Sesiones |-> SinPeticion]
    /\ primera = [c \in Catalogos |-> SinCargarCatalogo]
    /\ inicio = << >>

SpecCatalogo == InitCatalogo /\ [][NextCatalogo]_vars

\* ------------------------------------- requests on concurrent sessions
\* Several server processes share the database.  Every request runs on a
\* Session of its own; the processes interleave between SQL statements.  A
\* commit flushes its UPDATE or INSERT and ends the transaction in one step.
Llamada(fn, x) == [fn |-> fn, x |-> x]

\* the crud calls a handler makes when every check lets it go on
Programa(op, arg) ==
    CASE op = "get_estado" -> << Llamada("get_estado", 0) >>
      [] op = "escuchar_cancion" ->
            << Llamada("add_estrellas", EstrellaPorEscucha) >>
      [] op = "dar_punto" ->
            << Llamada("increment_puntos", 1),
               Llamada("get_nuevas_razones_desbloqueadas", 0) >>
      [] op = "leer_carta" ->
            << Llamada("is_carta_leida", arg),
               Llamada("add_carta_leida", arg),
               Llamada("add_estrellas", EstrellaPorCarta) >>
      [] op = "reclamar_premio" ->
            << Llamada("is_premio_reclamado", arg),
               Llamada("tiene_suficientes_estrellas",
                       get_premio_by_id(arg)[1].costo),
               Llamada("subtract_estrellas", get_premio_by_id(arg)[1].costo),
               Llamada("add_premio_reclamado", arg) >>

\* the handler returns or raises
Fin(r, outcome, valor) ==
    [r EXCEPT !.cola = << >>, !.paso = "fin", !.outcome = outcome,
              !.valor = valor]

\* the crud call returned: the handler makes its next call, or returns
Sigue(r) ==
    IF Len(r.cola) <= 1
    THEN Fin(r, "ok", r.valor)
    ELSE [r EXCEPT !.cola = Tail(@), !.paso = "sel"]

\* the handler up to its first crud call: the catalog lookups
Peticion(op, arg) ==
    LET r == [SinPeticion EXCEPT !.op = op, !.arg = arg]
    IN  IF \/ op = "leer_carta" /\ get_carta_by_id(arg) = None
           \/ op = "reclamar_premio" /\ get_premio_by_id(arg) = None
        THEN Fin(r, "NotFound", 0)
        ELSE [r EXCEPT !.cola = Programa(op, arg), !.paso = "sel"]

Peticiones ==
    { << "get_estado", 0 >>, << "escuchar_cancion", 0 >>, << "dar_punto", 0 >> }
    \cup { << "leer_carta", id >> : id \in CartaIds }
    \cup { << "reclamar_premio", id >> : id \in PremioIds }

\* the object `estado` of the running crud call, as a one-row table
Estado(r) == r.obj[r.est]

\* the change a mutating crud call makes to `estado` before its commit
Aplicar(c, o, t) ==
    CASE c.fn = "increment_puntos" -> increment_puntos(o, c.x, t)
      [] c.fn = "add_estrellas" -> add_estrellas(o, c.x, t)
      [] c.fn = "subtract_estrellas" -> subtract_estrellas(o, c.x, t)
      [] c.fn = "add_carta_leida" -> add_carta_leida(o, c.x, t)
      [] c.fn = "add_razon_desbloqueada" -> add_razon_desbloqueada(o, c.x, t)
      [] c.fn = "add_premio_reclamado" -> add_premio_reclamado(o, c.x, t)

\* the crud calls that commit only when the id was not in the list
SoloSiFalta == { "add_carta_leida", "add_razon_desbloqueada" }

\* ids of the reasons the loop of get_nuevas_razones_desbloqueadas picks
PorDesbloquear(ya, puntos_actuales) ==
    LET sel == SelectSeq(get_razones_data,
                         LAMBDA razon :
                             /\ razon.puntos_requeridos <= puntos_actuales
                             /\ ~In(razon.id, ya))
    IN  [i \in 1..Len(sel) |-> sel[i].id]

\* the running crud call from the return of its get_estado to its commit,
\* or to its return when it does not commit
Evaluar(r, t) ==
    LET c == Head(r.cola)
        o == Estado(r)
    IN  CASE c.fn = "get_estado" -> Fin(r, "ok", o[1].estrellas)
          [] c.fn = "is_carta_leida" ->
                IF is_carta_leida(o, c.x, t)
                THEN Fin(r, "ya_leida", o[1].estrellas)
                ELSE Sigue(r)
          [] c.fn = "is_premio_reclamado" ->
                IF is_premio_reclamado(o, c.x, t)
                THEN Fin(r, "AlreadyClaimed", 0)
                ELSE Sigue(r)
          [] c.fn = "tiene_suficientes_estrellas" ->
                IF tiene_suficientes_estrellas(o, c.x, t)
                THEN Sigue(r)
                ELSE Fin(r, "InsufficientFunds", 0)
          [] c.fn = "get_nuevas_razones_desbloqueadas" ->
                LET ids == PorDesbloquear(o[1].razones_desbloqueadas, r.valor)
                IN  IF ids = << >>
                    THEN Fin(r, "ok", r.valor)
                    ELSE [r EXCEPT
                            !.nuevas = ids,
                            !.paso = "sel",
                            !.cola = [i \in 1..Len(ids) |->
                                        Llamada("add_razon_desbloqueada",
                                                ids[i])]]
          [] OTHER ->
                IF c.fn \in SoloSiFalta /\ Aplicar(c, o, t) = o
                THEN Sigue(r)
                ELSE [r EXCEPT !.paso = "upd"]

\* a request reaches a process: get_db opens its Session
Solicitar ==
    \E s \in Sesiones, p \in Peticiones :
        /\ ses[s].op = "none"
        /\ ses' = [ses EXCEPT ![s] = Peticion(p[1], p[2])]
        /\ UNCHANGED << rows, clock, archivos, last, llamadas, desbloqueos,
                        escuchas, juegos, inicio,
                        primera >>

\* db.query(EstadoApp).first() of get_estado: the first row, whose loaded
\* attributes the Session keeps when it holds the object already; no row
\* sends get_estado to create_default_estado
Query ==
    \E s \in Sesiones :
        /\ ses[s].paso = "sel"
        /\ LET r == ses[s]
           IN  ses' = [ses EXCEPT ![s] =
                         IF Len(rows) = 0
                         THEN [r EXCEPT !.paso = "ins"]
                         ELSE Evaluar([r EXCEPT
                                         !.est = 1,
                                         !.obj[1] = IF r.obj[1] = None
                                                    THEN << rows[1] >>
                                                    ELSE r.obj[1]],
                                      clock)]
        /\ UNCHANGED << rows, clock, archivos, last, llamadas, desbloqueos,
                        escuchas, juegos, inicio,
                        primera >>

\* db.add(estado); db.commit() of create_default_estado: INSERT of a row
\* with the defaults under the next id
Insert ==
    \E s \in Sesiones :
        /\ ses[s].paso = "ins"
        /\ rows' = Append(rows, create_default_estado(clock))
        /\ ses' = [ses EXCEPT ![s].est = Len(rows) + 1,
                              ![s].obj = SinCargar,
                              ![s].paso = "rins"]
        /\ UNCHANGED << clock, archivos, last, llamadas, desbloqueos,
                        escuchas, juegos, inicio,
                        primera >>

\* db.refresh(estado) of create_default_estado, then the crud call goes on
\* with the row it created
RefreshNuevo ==
    \E s \in Sesiones :
        /\ ses[s].paso = "rins"
        /\ LET r == ses[s]
           IN  ses' = [ses EXCEPT ![s] =
                         Evaluar([r EXCEPT !.obj[r.est] = << rows[r.est] >>],
                                 clock)]
        /\ UNCHANGED << rows, clock, archivos, last, llamadas, desbloqueos,
                        escuchas, juegos, inicio,
                        primera >>

\* db.commit() of a mutating crud call: UPDATE of the attributes the call
\* changed on its `estado`, WHERE id = the id of that object; the commit
\* expires every object of the Session
Commit ==
    \E s \in Sesiones :
        /\ ses[s].paso = "upd"
        /\ LET r == ses[s]
               c == Head(r.cola)
               viejo == Estado(r)[1]
               nuevo == Aplicar(c, Estado(r), clock)[1]
               fila == [f \in DOMAIN viejo |->
                           IF nuevo[f] # viejo[f] THEN nuevo[f]
                           ELSE rows[r.est][f]]
           IN  /\ rows' = [rows EXCEPT ![r.est] = fila]
               /\ ses' = [ses EXCEPT
                            ![s].obj = SinCargar,
                            ![s].paso = "ref",
                            ![s].descontado =
                                @ \/ c.fn = "subtract_estrellas",
                            ![s].antes =
                                IF c.fn = "subtract_estrellas"
                                THEN rows[r.est].estrellas ELSE @,
                            ![s].despues =
                                IF c.fn = "subtract_estrellas"
                                THEN fila.estrellas ELSE @]
        /\ UNCHANGED << clock, archivos, last, llamadas, desbloqueos,
                        escuchas, juegos, inicio,
                        primera >>

\* db.refresh(estado) of a mutating crud call, which returns the object to
\* the handler
Refresh ==
    \E s \in Sesiones :
        /\ ses[s].paso = "ref"
        /\ LET r == ses[s]
               c == Head(r.cola)
               fila == rows[r.est]
           IN  ses' = [ses EXCEPT ![s] =
                         Sigue([r EXCEPT
                                  !.obj[r.est] = << fila >>,
                                  !.valor =
                                      CASE c.fn = "increment_puntos" ->
                                               fila.puntos_consideracion
                                        [] c.fn \in { "add_estrellas",
                                                      "subtract_estrellas" } ->
                                               fila.estrellas
                                        [] OTHER -> @])]
        /\ UNCHANGED << rows, clock, archivos, last, llamadas, desbloqueos,
                        escuchas, juegos, inicio,
                        primera >>

NextConc ==
    \/ Solicitar
    \/ Query
    \/ Insert
    \/ RefreshNuevo
    \/ Commit
    \/ Refresh

\* tables the requests may find: none yet, or the row after one bonus game
\* and one listened song
TablasIniciales ==
    { << >>, escuchar_cancion(completar_juego_bonus(<< >>, 0).rows, 0).rows }

InitConc ==
    /\ rows \in TablasIniciales
    /\ inicio = rows
    /\ clock = 0
    /\ archivos = [c \in Catalogos |-> "ok"]
    /\ last = NoRequest
    /\ llamadas = 0
    /\ desbloqueos = [id \in RazonIds |-> << >>]
    /\ escuchas = 0
    /\ juegos = 0
    /\ ses = [s \in Sesiones |-> SinPeticion]
    /\ primera = [c \in Catalogos |-> SinCargarCatalogo]

SpecConc == InitConc /\ [][NextConc]_vars

\* ------------------------------ the unlock function called on its own
\* thresholds a caller may pass: every total the bounded run can reach and
\* one above the highest puntos_requeridos
Umbrales == 0..(MaxPuntos + 1)

\* get_nuevas_razones_desbloqueadas(db, puntos_actuales) called directly
DesbloquearNuevas ==
    \E t \in Nows, puntos_actuales \in Umbrales :
        LET r == get_nuevas_razones_desbloqueadas(rows, puntos_actuales, t)
        IN  /\ Serve("desbloquear", puntos_actuales,
                     Resultado(r.rows, "ok", puntos_actuales, r.nuevas), t)
            /\ UNCHANGED << llamadas, desbloqueos, escuchas, juegos >>

NextDesbloqueo ==
    \/ DesbloquearNuevas
    \/ DarPunto

SpecDesbloqueo == Init /\ [][NextDesbloqueo]_vars

\* ------------------------------ the star primitives called on their own
\* amounts a caller may pass
Cantidades == 0..MaxCantidad

\* subtract_estrellas(db, cantidad) called directly
RestarEstrellas ==
    \E t \in Nows, cantidad \in Cantidades :
        LET d == subtract_estrellas(rows, cantidad, t)
        IN  /\ Serve("restar_estrellas", cantidad,
                     Resultado(d, "ok", d[1].estrellas, << >>), t)
            /\ UNCHANGED << llamadas, desbloqueos, escuchas, juegos >>

NextEstrellas ==
    \/ RestarEstrellas
    \/ EscucharCancion
    \/ CompletarJuego
    \/ LeerCarta

SpecEstrellas == Init /\ [][NextEstrellas]_vars

\* ------------------------------------- the catalog accessors on their own
Contenido(c) ==
    CASE c = "cartas" -> Cartas
      [] c = "razones" -> Razones
      [] c = "premios" -> Premios
      [] c = "canciones" -> Canciones

\* get_cartas_data(), get_razones_data(), get_premios_data(),
\* get_canciones_data()
get_data(c) ==
    CASE c = "cartas" -> get_cartas_data
      [] c = "razones" -> get_razones_data
      [] c = "premios" -> get_premios_data
      [] c = "canciones" -> get_canciones_data

\* get_carta_by_id, get_razon_by_id, get_premio_by_id, get_cancion_by_id
get_by_id(c, id) ==
    CASE c = "cartas" -> get_carta_by_id(id)
      [] c = "razones" -> get_razon_by_id(id)
      [] c = "premios" -> get_premio_by_id(id)
      [] c = "canciones" -> get_cancion_by_id(id)

\* a call of an accessor or of a by-id lookup (id = 0 for the accessor);
\* each of them loads the file, and primera keeps what the first load gave
Acceso(c, op, id, resultado) ==
    /\ last' = [NoRequest EXCEPT !.op = op, !.arg = id, !.outcome = c,
                                 !.data = resultado, !.archivo = archivos[c]]
    /\ primera' = IF primera[c].cargado THEN primera
                  ELSE [primera EXCEPT
                          ![c] = [cargado |-> TRUE, datos |-> get_data(c)]]
    /\ UNCHANGED << rows, clock, archivos, llamadas, desbloqueos, escuchas,
                    juegos, ses, inicio >>

LeerCatalogo ==
    \E c \in Catalogos : Acceso(c, "get_data", 0, get_data(c))

BuscarPorId ==
    \E c \in Catalogos :
        \E id \in 1..(Len(Contenido(c)) + 1) :
            Acceso(c, "get_by_id", id, get_by_id(c, id))

NextCache ==
    \/ CambiarArchivo
    \/ LeerCatalogo
    \/ BuscarPorId

SpecCache == Init /\ [][NextCache]_vars

\* ------------------------------------------ requests and the fix script
\* fix_razones.py: unlocks every catalog reason that the stored points reach
\* and that is not unlocked
desbloquear_razones_pendientes(tbl, t) ==
    LET d == get_estado(tbl, t)
    IN  nuevas_razones_loop(1, d, d[1].razones_desbloqueadas, << >>,
                            d[1].puntos_consideracion, t)

FixRazones ==
    \E t \in Nows :
        LET r == desbloquear_razones_pendientes(rows, t)
        IN  /\ Serve("fix_razones", 0, Resultado(r.rows, "ok", 0, r.nuevas), t)
            /\ UNCHANGED << llamadas, desbloqueos, escuchas, juegos >>

NextConScript ==
    \/ FixRazones
    \/ GetEstadoApp
    \/ DarPunto
    \/ LeerCarta
    \/ EscucharCancion
    \/ ReclamarPremio
    \/ CompletarJuego

SpecConScript == Init /\ [][NextConScript]_vars

\* ------------------------------------------------------------ properties
PremioIdsReclamados(tbl) ==
    [i \in 1..Len(PremiosReclamados(tbl)) |-> PremiosReclamados(tbl)[i].premio_id]

NoDuplicates(s) == \A i, j \in 1..Len(s) : s[i] = s[j] => i = j

IsPrefix(s, u) == Len(s) <= Len(u) /\ \A i \in 1..Len(s) : s[i] = u[i]

InCatalog(data, x) == \E i \in 1..Len(data) : data[i].id = x

\* C1: for a catalog prize not yet claimed and stars >= its cost, claiming it
\* succeeds and takes exactly its cost off the stars; claiming it again right
\* after fails with AlreadyClaimed and leaves stars and the claimed prizes as
\* the first call left them.
C1_ReclamarDosVeces ==
    \A i \in 1..Len(Premios) :
        LET p == Premios[i]
        IN  (last.op = "reclamar_premio" /\ last.arg = p.id) =>
              /\ (/\ Estrellas(last.pre) >= p.costo
                  /\ ~In(p.id, PremioIdsReclamados(last.pre)))
                   => /\ last.outcome = "ok"
                      /\ Estrellas(rows) = Estrellas(last.pre) - p.costo
              /\ last.repetida
                   => /\ last.outcome = "AlreadyClaimed"
                      /\ Estrellas(rows) = Estrellas(last.pre)
                      /\ PremiosReclamados(rows) = PremiosReclamados(last.pre)

C1_Witness ==
    /\ last.op = "reclamar_premio"
    /\ last.repetida
    /\ last.outcome = "AlreadyClaimed"
    /\ Estrellas(rows) = 0

\* C2: claiming a catalog prize that is not yet claimed with stars below its
\* cost returns InsufficientFunds and leaves stars and claimed prizes alone.
C2_EstrellasInsuficientes ==
    \A i \in 1..Len(Premios) :
        LET p == Premios[i]
        IN  (/\ last.op = "reclamar_premio"
             /\ last.arg = p.id
             /\ ~In(p.id, PremioIdsReclamados(last.pre))
             /\ Estrellas(last.pre) < p.costo)
              => /\ last.outcome = "InsufficientFunds"
                 /\ Estrellas(rows) = Estrellas(last.pre)
                 /\ PremiosReclamados(rows) = PremiosReclamados(last.pre)

C2_Witness ==
    /\ last.op = "reclamar_premio"
    /\ last.arg = 2
    /\ last.outcome = "InsufficientFunds"
    /\ Estrellas(last.pre) = 1

\* C3: a successful claim sets stars to the stars before minus the prize's
\* cost, appends the one entry (id, now) after the entries already logged,
\* and reports the stars that are stored after the call.
C3_ReclamoExitoso ==
    (last.op = "reclamar_premio" /\ last.outcome = "ok") =>
        /\ InCatalog(Premios, last.arg)
        /\ Estrellas(rows) =
             Estrellas(last.pre) - get_premio_by_id(last.arg)[1].costo
        /\ PremiosReclamados(rows) =
             Append(PremiosReclamados(last.pre),
                    [premio_id |-> last.arg, fecha_reclamado |-> last.at])
        /\ last.valor = Estrellas(rows)

C3_Witness ==
    /\ last.op = "reclamar_premio"
    /\ last.outcome = "ok"
    /\ Len(PremiosReclamados(rows)) = 2
    /\ PremiosReclamados(rows)[1].fecha_reclamado < last.at

\* C4: the first read of a catalog letter puts its id into the read letters
\* and adds exactly one star; every later read of it succeeds, says "already
\* read", adds no star and leaves the whole record as it was.
C4_LeerCartaUnaVez ==
    (last.op = "leer_carta" /\ InCatalog(Cartas, last.arg)) =>
        IF ~In(last.arg, CartasLeidas(last.pre))
        THEN /\ last.outcome = "ok"
             /\ CartasLeidas(rows) = Append(CartasLeidas(last.pre), last.arg)
             /\ Estrellas(rows) = Estrellas(last.pre) + 1
             /\ last.valor = Estrellas(rows)
        ELSE /\ last.outcome = "ya_leida"
             /\ last.valor = Estrellas(last.pre)
             /\ rows = last.pre

C4_Witness ==
    /\ last.op = "leer_carta"
    /\ last.outcome = "ya_leida"
    /\ CartasLeidas(rows) = << 2, 1 >>
    /\ last.arg = 2
    /\ last.at > rows[1].updated_at

\* C5: reading a letter id that the catalog does not hold returns NotFound
\* and changes no field of the record.
C5_CartaNoEncontrada ==
    (last.op = "leer_carta" /\ ~InCatalog(Cartas, last.arg)) =>
        /\ last.outcome = "NotFound"
        /\ rows = last.pre

C5_Witness ==
    /\ last.op = "leer_carta"
    /\ last.outcome = "NotFound"
    /\ Len(CartasLeidas(rows)) = 1

\* the first dar-punto call whose new total is at least puntos_requeridos
PrimeraLlamada(puntos_requeridos) == Max(1, puntos_requeridos)

\* C6: from a fresh record, after n dar-punto calls the points are n, and
\* the k-th call reports k as the new total.
C6_PuntosIgualLlamadas ==
    /\ Puntos(rows) = llamadas
    /\ last.op = "dar_punto" => last.valor = llamadas

C6_Witness ==
    /\ last.op = "dar_punto"
    /\ llamadas = 3
    /\ last.valor = 3

\* C7: over the dar-punto calls from a fresh record every catalog reason,
\* one with puntos_requeridos = 0 included, is in the newly unlocked list of
\* exactly one call: the first call whose point total has reached its
\* puntos_requeridos (call 1 for a threshold of 0 or 1); no call before it
\* and no call after it lists the reason.
C7_RazonDesbloqueadaUnaVez ==
    /\ \A i \in 1..Len(Razones) :
          LET razon == Razones[i]
              k == PrimeraLlamada(razon.puntos_requeridos)
          IN  desbloqueos[razon.id] = IF llamadas >= k THEN << k >> ELSE << >>
    /\ last.op = "dar_punto" =>
          /\ NoDuplicates(last.nuevas)
          /\ Range(last.nuevas) =
               { id \in RazonIds : In(llamadas, desbloqueos[id]) }

C7_Witness ==
    /\ last.op = "dar_punto"
    /\ llamadas = 3
    /\ last.nuevas = << 3 >>
    /\ desbloqueos[2] = << 1 >>
    /\ desbloqueos[1] = << 2 >>
    /\ desbloqueos[4] = << 2 >>

\* C8: in every state that the public operations can reach the stars are
\* not negative.
C8_EstrellasNoNegativas == Estrellas(rows) >= 0

C8_Witness ==
    /\ last.op = "reclamar_premio"
    /\ last.outcome = "ok"
    /\ Estrellas(rows) = 0
    /\ Len(PremiosReclamados(rows)) = 2

\* C9: the claimed prizes hold each prize id at most once, and whatever a
\* request does, the entries logged before it are still the first entries
\* of the log after it.
C9_PremiosSinRepetirSoloAppend ==
    /\ NoDuplicates(PremioIdsReclamados(rows))
    /\ IsPrefix(PremiosReclamados(last.pre), PremiosReclamados(rows))

C9_Witness ==
    /\ last.op = "reclamar_premio"
    /\ last.outcome = "AlreadyClaimed"
    /\ PremioIdsReclamados(rows) = << 2, 1 >>
    /\ last.arg = 2

\* C10: no request lowers the points, and the unlocked reasons, the read
\* letters and the heard songs only grow: after every request each holds
\* all the ids it held before, and none holds an id twice.
C10_SoloCrecen ==
    /\ Puntos(rows) >= Puntos(last.pre)
    /\ Range(RazonesDesbloqueadas(last.pre)) \subseteq
         Range(RazonesDesbloqueadas(rows))
    /\ Range(CartasLeidas(last.pre)) \subseteq Range(CartasLeidas(rows))
    /\ Range(CancionesEscuchadas(last.pre)) \subseteq
         Range(CancionesEscuchadas(rows))
    /\ NoDuplicates(RazonesDesbloqueadas(rows))
    /\ NoDuplicates(CartasLeidas(rows))
    /\ NoDuplicates(CancionesEscuchadas(rows))

C10_Witness ==
    /\ Puntos(rows) = 3
    /\ Len(RazonesDesbloqueadas(rows)) = 4
    /\ Len(CartasLeidas(rows)) = 2
    /\ Len(CancionesEscuchadas(rows)) = 1
    /\ last.op = "escuchar_cancion_id"
    /\ last.outcome = "ya_escuchada"

\* everything of the record but the stars and the time of the last update
SinEstrellas(tbl) ==
    << Puntos(tbl), RazonesDesbloqueadas(tbl), CartasLeidas(tbl),
       CancionesEscuchadas(tbl), PremiosReclamados(tbl) >>

\* every process has served the same request to its end
Ambas(op, arg) ==
    \A s \in Sesiones :
        ses[s].op = op /\ ses[s].arg = arg /\ ses[s].paso = "fin"

CostoDe(premio_id) == by_id(Premios, premio_id)[1].costo

\* C11: when two read-letter requests for the same unread catalog letter run
\* concurrently, each on its own session, the letter is awarded once: stars
\* end exactly 1 higher and the id is once in the read letters.
C11_LecturaConcurrenteUnaVez ==
    \A id \in CartaIds :
        (/\ Ambas("leer_carta", id)
         /\ InCatalog(Cartas, id)
         /\ ~In(id, CartasLeidas(inicio)))
        => /\ Estrellas(rows) = Estrellas(inicio) + EstrellaPorCarta
           /\ Count(id, CartasLeidas(rows)) = 1

\* C12: when two claim-prize requests for the same unclaimed, affordable
\* prize run concurrently, one succeeds and the other returns AlreadyClaimed;
\* the cost is deducted once and the id is once in the claimed prizes.
C12_ReclamoConcurrenteUnaVez ==
    \A id \in PremioIds :
        (/\ Ambas("reclamar_premio", id)
         /\ InCatalog(Premios, id)
         /\ ~In(id, PremioIdsReclamados(inicio))
         /\ Estrellas(inicio) >= CostoDe(id))
        => /\ \E s \in Sesiones :
                /\ ses[s].outcome = "ok"
                /\ \A o \in Sesiones \ { s } :
                       ses[o].outcome = "AlreadyClaimed"
           /\ Estrellas(rows) = Estrellas(inicio) - CostoDe(id)
           /\ Count(id, PremioIdsReclamados(rows)) = 1

\* C13: when k award-point requests, or k add-star requests, run concurrently
\* in separate sessions, the stored counter ends k higher than it started.
C13_SinActualizacionPerdida ==
    /\ Ambas("dar_punto", 0)
         => Puntos(rows) = Puntos(inicio) + Cardinality(Sesiones)
    /\ Ambas("escuchar_cancion", 0)
         => Estrellas(rows) =
              Estrellas(inicio) + Cardinality(Sesiones) * EstrellaPorEscucha

\* C14: no committed state has the cost of a claim deducted while the prize
\* is absent from the claimed prizes.
C14_DescuentoYRegistroAtomicos ==
    \A s \in Sesiones :
        (ses[s].op = "reclamar_premio" /\ ses[s].descontado)
        => In(ses[s].arg, PremioIdsReclamados(rows))

\* C15: whenever claim-prize deducts, the stored stars before the deduction
\* are at least the cost and the stored result is stars - cost, not the floor.
C15_DescuentoSinPiso ==
    \A s \in Sesiones :
        (ses[s].op = "reclamar_premio" /\ ses[s].descontado)
        => /\ ses[s].antes >= CostoDe(ses[s].arg)
           /\ ses[s].despues = ses[s].antes - CostoDe(ses[s].arg)

\* C20: exactly one progress record exists once it has been accessed, also
\* when several requests make the first access concurrently; it is created
\* with the defaults.
C20_UnSoloRegistro ==
    /\ Len(rows) <= 1
    /\ (inicio = << >> /\ Len(rows) = 1 /\ \A s \in Sesiones :
                                               ses[s].paso # "fin")
         => \E t \in 0..MaxClock : rows[1] = create_default_estado(t)
    /\ \A s \in Sesiones :
           (ses[s].paso = "fin" /\ ses[s].outcome # "NotFound")
           => Len(rows) = 1

\* C16: every POST /escuchar-cancion adds exactly one star, whatever the
\* state and however often it ran before; it takes no song id, never ends
\* in NotFound, and leaves the heard songs, the other collections and the
\* points alone.
C16_EscucharSiempreSuma ==
    last.op = "escuchar_cancion" =>
        /\ last.outcome = "ok"
        /\ Estrellas(rows) = Estrellas(last.pre) + 1
        /\ last.valor = Estrellas(rows)
        /\ SinEstrellas(rows) = SinEstrellas(last.pre)

C16_Witness ==
    /\ last.op = "escuchar_cancion"
    /\ last.repetida
    /\ escuchas = 2
    /\ CancionesEscuchadas(rows) = << 1 >>

\* C17: listening by id to a song that the catalog does not hold returns
\* NotFound and changes nothing; for a catalog song the first call puts the
\* id into the heard songs and adds one star, and every repeat says "already
\* heard" without error, adds no star and changes nothing.
C17_EscucharPorIdUnaVez ==
    last.op = "escuchar_cancion_id" =>
        IF ~InCatalog(Canciones, last.arg)
        THEN /\ last.outcome = "NotFound"
             /\ rows = last.pre
        ELSE IF ~In(last.arg, CancionesEscuchadas(last.pre))
             THEN /\ last.outcome = "ok"
                  /\ CancionesEscuchadas(rows) =
                       Append(CancionesEscuchadas(last.pre), last.arg)
                  /\ Estrellas(rows) = Estrellas(last.pre) + 1
                  /\ last.valor = Estrellas(rows)
             ELSE /\ last.outcome = "ya_escuchada"
                  /\ last.valor = Estrellas(last.pre)
                  /\ rows = last.pre

C17_Witness ==
    /\ last.op = "escuchar_cancion_id"
    /\ last.repetida
    /\ last.outcome = "ya_escuchada"
    /\ CartasLeidas(rows) = << >>
    /\ Estrellas(rows) = 1

\* C18: every POST /completar-juego adds exactly 15 stars, with no
\* precondition and however often it ran before, reports the new total, and
\* leaves the points and every collection alone.
C18_BonusJuegoSuma15 ==
    last.op = "completar_juego" =>
        /\ last.outcome = "ok"
        /\ Estrellas(rows) = Estrellas(last.pre) + 15
        /\ last.valor = Estrellas(rows)
        /\ SinEstrellas(rows) = SinEstrellas(last.pre)

C18_Witness ==
    /\ last.op = "completar_juego"
    /\ last.repetida
    /\ juegos = 2
    /\ Estrellas(rows) = 30

Listados == { "listar_cartas", "listar_premios", "listar_razones" }

PorId == { "leer_carta", "reclamar_premio", "escuchar_cancion_id" }

\* C19 as claimed: with a missing or malformed catalog file no operation
\* fails; the listings succeed with an empty result and the by-id
\* operations report NotFound for every id.
C19_CatalogoVacioNuncaFalla ==
    last.archivo # "ok" =>
        /\ last.op \in Listados => (last.outcome = "ok" /\ last.data = << >>)
        /\ last.op \in PorId => last.outcome = "NotFound"

\* C19 as amended: a missing or undecodable catalog file is loaded as an
\* empty catalog.  The by-id operations then report NotFound for every id
\* and change nothing, and dar-punto succeeds and unlocks nothing; but the
\* listings of letters and of prizes fail with a 404, and the listing of
\* unlocked reasons succeeds with an empty result only while no reason is
\* unlocked and fails with a 404 once one is.
C19_CatalogoVacio ==
    last.archivo # "ok" =>
        /\ last.op \in PorId => (last.outcome = "NotFound" /\ rows = last.pre)
        /\ last.op = "dar_punto" => (last.outcome = "ok" /\ last.nuevas = << >>)
        /\ last.op \in { "listar_cartas", "listar_premios" } =>
              (last.outcome = "Error404" /\ rows = last.pre)
        /\ last.op = "listar_razones" =>
              /\ last.data = << >>
              /\ last.outcome =
                   IF RazonesDesbloqueadas(last.pre) = << >>
                   THEN "ok" ELSE "Error404"

C19_Witness ==
    /\ last.op = "listar_razones"
    /\ last.archivo = "malformed"
    /\ last.outcome = "Error404"
    /\ Len(RazonesDesbloqueadas(rows)) = 3

\* the ids of a listing, in its order
IdsDe(data) == [i \in 1..Len(data) |-> data[i].id]

Ascendente(data, campo) ==
    \A i, j \in 1..Len(data) : i < j => data[i][campo] <= data[j][campo]

\* C21: a prize listing holds every catalog prize once in ascending order of
\* cost, and a reason listing holds exactly the unlocked reasons, each once,
\* in ascending order of puntos_requeridos, whatever the order of the
\* catalog file and of the unlocks.
C21_ListadosOrdenados ==
    /\ (last.op = "listar_premios" /\ last.outcome = "ok")
         => /\ Ascendente(last.data, "costo")
            /\ NoDuplicates(IdsDe(last.data))
            /\ Range(IdsDe(last.data)) = Range(IdsDe(Premios))
    /\ (last.op = "listar_razones" /\ last.outcome = "ok")
         => /\ Ascendente(last.data, "puntos_requeridos")
            /\ NoDuplicates(IdsDe(last.data))
            /\ Range(IdsDe(last.data)) = Range(RazonesDesbloqueadas(last.pre))

\* reasons unlocked in catalog order, which is not the order of thresholds
C21_Witness ==
    /\ last.op = "listar_razones"
    /\ last.outcome = "ok"
    /\ RazonesDesbloqueadas(last.pre) = << 1, 2, 3, 4 >>
    /\ IdsDe(last.data) = << 2, 1, 4, 3 >>

\* ids of the catalog reasons a threshold reaches
RazonesHasta(puntos_actuales) ==
    { Razones[i].id : i \in { j \in 1..Len(Razones) :
                                 Razones[j].puntos_requeridos <= puntos_actuales } }

\* C22: the unlock function called with threshold t appends to the unlocked
\* reasons exactly the catalog reasons with puntos_requeridos <= t that were
\* not unlocked, each once, and returns exactly those; the same call made
\* again right after returns an empty list and leaves the row as it was.
C22_DesbloqueaExactamenteLasNuevas ==
    last.op = "desbloquear" =>
        LET ya == RazonesDesbloqueadas(last.pre)
            esperadas == RazonesHasta(last.arg) \ Range(ya)
        IN  /\ Range(last.nuevas) = esperadas
            /\ NoDuplicates(last.nuevas)
            /\ IsPrefix(ya, RazonesDesbloqueadas(rows))
            /\ SubSeq(RazonesDesbloqueadas(rows), Len(ya) + 1,
                      Len(RazonesDesbloqueadas(rows))) = last.nuevas
            /\ last.repetida => (last.nuevas = << >> /\ rows = last.pre)

\* the second of two equal calls, the first of which unlocked three reasons
C22_Witness ==
    /\ last.op = "desbloquear"
    /\ last.arg = 2
    /\ last.repetida
    /\ Puntos(rows) = 0
    /\ RazonesDesbloqueadas(rows) = << 1, 2, 4 >>

\* the progress record as load() shows it is the same in both tables
MismoProgreso(a, b) ==
    /\ Puntos(a) = Puntos(b)
    /\ Estrellas(a) = Estrellas(b)
    /\ RazonesDesbloqueadas(a) = RazonesDesbloqueadas(b)
    /\ CartasLeidas(a) = CartasLeidas(b)
    /\ CancionesEscuchadas(a) = CancionesEscuchadas(b)
    /\ PremiosReclamados(a) = PremiosReclamados(b)
    /\ Len(a) = 1 => b = a

\* C23: a claim reports the first check that fails in the order exists, not
\* already claimed, enough stars: NotFound for an unknown id whatever the
\* state, AlreadyClaimed for a claimed prize also when the stars are below
\* its cost; a claim that fails leaves the progress record unchanged.
C23_OrdenDeVerificaciones ==
    last.op = "reclamar_premio" =>
        /\ last.outcome =
             IF ~InCatalog(Premios, last.arg) THEN "NotFound"
             ELSE IF In(last.arg, PremioIdsReclamados(last.pre))
                  THEN "AlreadyClaimed"
                  ELSE IF Estrellas(last.pre) < CostoDe(last.arg)
                       THEN "InsufficientFunds"
                       ELSE "ok"
        /\ last.outcome # "ok" => MismoProgreso(last.pre, rows)

\* an already claimed prize asked for again with fewer stars than its cost
C23_Witness ==
    /\ last.op = "reclamar_premio"
    /\ last.outcome = "AlreadyClaimed"
    /\ Estrellas(last.pre) < CostoDe(last.arg)

\* C24: the subtract primitive never fails: from stars s >= 0 and for an
\* amount n >= 0 it stores s - n when that is not negative and 0 otherwise.
C24_RestarConPiso ==
    last.op = "restar_estrellas" =>
        /\ last.outcome = "ok"
        /\ Estrellas(rows) = IF Estrellas(last.pre) >= last.arg
                             THEN Estrellas(last.pre) - last.arg
                             ELSE 0
        /\ last.valor = Estrellas(rows)
        /\ Estrellas(rows) >= 0

\* a deduction larger than a balance that is not empty
C24_Witness ==
    /\ last.op = "restar_estrellas"
    /\ Estrellas(last.pre) > 0
    /\ last.arg > Estrellas(last.pre)
    /\ Estrellas(rows) = 0

Accesos == { "get_data", "get_by_id" }

\* what a call returns when it is answered from the records d
Respuesta(op, id, d) == IF op = "get_data" THEN d ELSE by_id(d, id)

\* C25: after the first access to a catalog every accessor and by-id lookup
\* answers from the records of that first load, also when the file has
\* changed or become unreadable since.
C25_CatalogoEnCache ==
    last.op \in Accesos =>
        last.data = Respuesta(last.op, last.arg, primera[last.outcome].datos)

\* C25 amended: every accessor and by-id lookup loads the file at the call
\* and answers from what the file holds then: its records when it is
\* readable, an empty catalog (None for a lookup) when it is missing or not
\* JSON, whatever an earlier call returned.
C25_CatalogoLeidoEnCadaLlamada ==
    last.op \in Accesos =>
        last.data = Respuesta(last.op, last.arg,
                              IF last.archivo = "ok"
                              THEN Contenido(last.outcome) ELSE << >>)

\* a lookup that finds nothing in a catalog whose first load had the record
C25_Witness ==
    /\ last.op = "get_by_id"
    /\ last.archivo = "missing"
    /\ last.data = None
    /\ primera[last.outcome].cargado
    /\ by_id(primera[last.outcome].datos, last.arg) # None

\* C26: a letter listing holds every catalog letter with leida = (id in
\* cartas_leidas) and disponible = true, a prize listing holds every catalog
\* prize with reclamado = (id is the premio_id of a claimed prize), and
\* neither listing changes the progress record.
C26_ListadosReflejanElEstado ==
    /\ (last.op = "listar_cartas" /\ last.outcome = "ok")
         => /\ IdsDe(last.data) = IdsDe(Cartas)
            /\ \A i \in 1..Len(last.data) :
                  /\ last.data[i].leida =
                        In(last.data[i].id, CartasLeidas(last.pre))
                  /\ last.data[i].disponible = TRUE
    /\ (last.op = "listar_premios" /\ last.outcome = "ok")
         => /\ Range(IdsDe(last.data)) = Range(IdsDe(Premios))
            /\ NoDuplicates(IdsDe(last.data))
            /\ \A i \in 1..Len(last.data) :
                  last.data[i].reclamado =
                      In(last.data[i].id, PremioIdsReclamados(last.pre))
    /\ last.op \in { "listar_cartas", "listar_premios" }
         => MismoProgreso(last.pre, rows)

\* a prize listing with one prize claimed and one not
C26_Witness ==
    /\ last.op = "listar_premios"
    /\ last.outcome = "ok"
    /\ \E i, j \in 1..Len(last.data) :
          last.data[i].reclamado /\ ~last.data[j].reclamado

\* sum of the catalog costs of the prizes of a claim log
RECURSIVE SumaCostos(_)
SumaCostos(reclamados) ==
    IF reclamados = << >> THEN 0
    ELSE CostoDe(Head(reclamados).premio_id) + SumaCostos(Tail(reclamados))

\* C27: after any sequential run from a fresh record the stars are the read
\* letters plus the heard songs plus the always-award listens plus 15 per
\* game bonus, less the costs of the claimed prizes.
C27_ConservacionDeEstrellas ==
    Estrellas(rows) =
        Len(CartasLeidas(rows)) * EstrellaPorCarta
        + Len(CancionesEscuchadas(rows)) * EstrellaPorCancion
        + escuchas * EstrellaPorEscucha
        + juegos * BonusJuego
        - SumaCostos(PremiosReclamados(rows))

\* every source of stars and a claim have acted
C27_Witness ==
    /\ Len(CartasLeidas(rows)) > 0
    /\ Len(CancionesEscuchadas(rows)) > 0
    /\ escuchas > 0
    /\ juegos > 0
    /\ Len(PremiosReclamados(rows)) = 2

\* C28: with an unchanging catalog, between operations every unlocked id is
\* the id of a catalog reason whose puntos_requeridos the points have
\* reached, and once a dar-punto call has completed the unlocked ids are
\* exactly the ids of those reasons.
C28_DesbloqueadasSegunPuntos ==
    /\ Range(RazonesDesbloqueadas(rows)) \subseteq RazonesHasta(Puntos(rows))
    /\ llamadas >= 1 =>
          Range(RazonesDesbloqueadas(rows)) = RazonesHasta(Puntos(rows))

\* the script unlocked the reason of threshold 0 before the first point, and
\* the second point unlocked the two reasons of threshold 2
C28_Witness ==
    /\ last.op = "dar_punto"
    /\ llamadas = 2
    /\ last.nuevas = << 1, 4 >>
    /\ RazonesDesbloqueadas(rows) = << 2, 1, 4 >>
    /\ desbloqueos[2] = << >>

LadoEstrellas ==
    { "leer_carta", "escuchar_cancion", "escuchar_cancion_id",
      "reclamar_premio", "completar_juego" }

\* C29: dar-punto leaves the stars, the read letters, the heard songs and
\* the claimed prizes as they were; reading a letter, both ways of listening
\* to a song, claiming a prize and the game bonus leave the points and the
\* unlocked reasons as they were.
C29_LadosIndependientes ==
    /\ last.op = "dar_punto"
         => /\ Estrellas(rows) = Estrellas(last.pre)
            /\ CartasLeidas(rows) = CartasLeidas(last.pre)
            /\ CancionesEscuchadas(rows) = CancionesEscuchadas(last.pre)
            /\ PremiosReclamados(rows) = PremiosReclamados(last.pre)
    /\ last.op \in LadoEstrellas
         => /\ Puntos(rows) = Puntos(last.pre)
            /\ RazonesDesbloqueadas(rows) = RazonesDesbloqueadas(last.pre)

\* a prize claimed on a record that holds points and unlocked reasons
C29_Witness ==
    /\ last.op = "reclamar_premio"
    /\ last.outcome = "ok"
    /\ Puntos(rows) = 3
    /\ Len(RazonesDesbloqueadas(rows)) = 4
    /\ Estrellas(rows) # Estrellas(last.pre)

\* C30: a claim does not look at the disponible flag of the prize: for a
\* catalog prize with the flag true or false alike, the outcome follows from
\* the claimed prizes, the stars and the cost alone, and so does the record
\* the claim leaves.
C30_ReclamoIgnoraDisponible ==
    \A b \in BOOLEAN : \A i \in 1..Len(Premios) :
        (/\ Premios[i].disponible = b
         /\ last.op = "reclamar_premio"
         /\ last.arg = Premios[i].id)
        => /\ last.outcome =
                IF In(last.arg, PremioIdsReclamados(last.pre))
                THEN "AlreadyClaimed"
                ELSE IF Estrellas(last.pre) < Premios[i].costo
                     THEN "InsufficientFunds"
                     ELSE "ok"
           /\ IF last.outcome = "ok"
              THEN /\ Estrellas(rows) = Estrellas(last.pre) - Premios[i].costo
                   /\ PremioIdsReclamados(rows) =
                         Append(PremioIdsReclamados(last.pre), last.arg)
                   /\ Puntos(rows) = Puntos(last.pre)
                   /\ CartasLeidas(rows) = CartasLeidas(last.pre)
              ELSE MismoProgreso(last.pre, rows)

\* a prize whose flag is false, claimed with success
C30_Witness ==
    /\ last.op = "reclamar_premio"
    /\ last.outcome = "ok"
    /\ \E i \in 1..Len(Premios) :
          Premios[i].id = last.arg /\ ~Premios[i].disponible

====
